---- MODULE Spec2Model ----
(***************************************************************************)
(* Watermark removal of src/services/pdfUtils.ts: cleanContentStream (the  *)
(* five regular-expression rules over the decoded text of a content        *)
(* stream) and removeWatermarks (the document-level pass that calls it).   *)
(*                                                                         *)
(* A stream text is a sequence of one-character strings, so that the       *)
(* regular expressions are matched character by character as the           *)
(* JavaScript engine matches them (leftmost match, greedy and lazy         *)
(* quantifiers, non-overlapping global replacement).                       *)
(***************************************************************************)
EXTENDS Integers, Sequences, FiniteSets, TLC

(***************************************************************************)
(* Character classes of the regular expressions.                           *)
(***************************************************************************)
\* \s : the white space of the model's alphabet
WhiteSpace == {" ", "\n"}

\* \d
Digit == {"0", "1", "2", "3", "4", "5", "6", "7", "8", "9"}

\* [\d\.]
NumChar == Digit \cup {"."}

LowerCase == {"a", "b", "c", "d", "e", "f", "g", "h", "i", "j", "k", "l", "m",
              "n", "o", "p", "q", "r", "s", "t", "u", "v", "w", "x", "y", "z"}

UpperCase == {"A", "B", "C", "D", "E", "F", "G", "H", "I", "J", "K", "L", "M",
              "N", "O", "P", "Q", "R", "S", "T", "U", "V", "W", "X", "Y", "Z"}

\* [a-zA-Z0-9_]
NameChar == LowerCase \cup UpperCase \cup Digit \cup {"_"}

\* The canonical form of a character under the regular-expression flag i.
Canon(ch) ==
    CASE ch = "a" -> "A" [] ch = "b" -> "B" [] ch = "c" -> "C" [] ch = "d" -> "D"
      [] ch = "e" -> "E" [] ch = "f" -> "F" [] ch = "g" -> "G" [] ch = "h" -> "H"
      [] ch = "i" -> "I" [] ch = "j" -> "J" [] ch = "k" -> "K" [] ch = "l" -> "L"
      [] ch = "m" -> "M" [] ch = "n" -> "N" [] ch = "o" -> "O" [] ch = "p" -> "P"
      [] ch = "q" -> "Q" [] ch = "r" -> "R" [] ch = "s" -> "S" [] ch = "t" -> "T"
      [] ch = "u" -> "U" [] ch = "v" -> "V" [] ch = "w" -> "W" [] ch = "x" -> "X"
      [] ch = "y" -> "Y" [] ch = "z" -> "Z" [] OTHER -> ch

(***************************************************************************)
(* Matching primitives.  A position is an index into the text; a match     *)
(* operator gives the position after the match, or NoMatch.                *)
(***************************************************************************)
NoMatch == 0

\* A match with captures is a record whose field end is the position after the
\* match; Failed is the match that did not succeed.
Failed == [end |-> NoMatch]

\* The least position of a set of positions, NoMatch when there is none.
Least(S) == IF S = {} THEN NoMatch ELSE CHOOSE x \in S : \A y \in S : x <= y

\* The literal lit stands at position i of s.
LitAt(s, i, lit) ==
    /\ i >= 1
    /\ i + Len(lit) - 1 <= Len(s)
    /\ \A k \in 1..Len(lit) : s[i + k - 1] = lit[k]

\* The literal lit stands at position i of s, letter case ignored (flag i).
LitAtI(s, i, lit) ==
    /\ i >= 1
    /\ i + Len(lit) - 1 <= Len(s)
    /\ \A k \in 1..Len(lit) : Canon(s[i + k - 1]) = Canon(lit[k])

\* \s* (greedy): the first position from i on that holds no white space.
SkipWs(s, i) ==
    IF i > Len(s) THEN i
    ELSE Least({j \in i..(Len(s) + 1) : j > Len(s) \/ s[j] \notin WhiteSpace})

\* \s+ : at least one white space character.
Ws1(s, i) ==
    IF i >= 1 /\ i <= Len(s) /\ s[i] \in WhiteSpace THEN SkipWs(s, i + 1) ELSE NoMatch

\* [\s\S]*?lit : the first position from i on where lit stands.
Find(s, i, lit) ==
    IF i < 1 THEN NoMatch
    ELSE Least({j \in i..(Len(s) - Len(lit) + 1) : LitAt(s, j, lit)})

\* [\d\.]+ (greedy): the position after the run of number characters at i.
SkipNum(s, i) ==
    IF i > Len(s) THEN i
    ELSE Least({j \in i..(Len(s) + 1) : j > Len(s) \/ s[j] \notin NumChar})

\* The run [j, e) of number characters is not empty.
NonEmpty(j, e) == IF e > j THEN e ELSE NoMatch

\* -?[\d\.]+ : the position after the number text at i.
NumAt(s, i) ==
    IF i < 1 \/ i > Len(s) THEN NoMatch
    ELSE IF s[i] = "-" THEN NonEmpty(i + 1, SkipNum(s, i + 1))
    ELSE NonEmpty(i, SkipNum(s, i))

\* \s+ after a match that ends at e.
WsAfter(s, e) == IF e = NoMatch THEN NoMatch ELSE Ws1(s, e)

\* (-?[\d\.]+)\s+ : a number and the white space after it, as the position
\* the match goes on at.
NumWsAt(s, i) == WsAfter(s, NumAt(s, i))

\* The text the capture group (-?[\d\.]+) holds for a number at i.
Capture(s, i) == SubSeq(s, i, NumAt(s, i) - 1)

\* ((-?[\d\.]+)\s+){n} : the position after n numbers from i on.
RECURSIVE NumsAt(_, _, _)
NumsAt(s, i, n) == IF n = 0 THEN i ELSE NumWsAt(s, NumsAt(s, i, n - 1))

\* The operator op after six numbers of which the second starts at p1, the
\* third at p2, and the last ends at p6.
MatrixOp(s, op, p1, p2, p6) ==
    IF p6 = NoMatch THEN Failed
    ELSE IF ~LitAt(s, p6, op) THEN Failed
    ELSE [b |-> Capture(s, p1), c |-> Capture(s, p2), end |-> p6 + Len(op)]

\* Six captured numbers, each followed by white space, then the operator op:
\* [b, c, end] with the texts of the second and third capture.
SixNumsOp(s, i, op) ==
    MatrixOp(s, op, NumsAt(s, i, 1), NumsAt(s, i, 2), NumsAt(s, i, 6))

(***************************************************************************)
(* parseFloat and the rotation test.                                       *)
(***************************************************************************)
\* The run of digits of t from position i on.
RECURSIVE DigitRun(_, _)
DigitRun(t, i) ==
    IF i <= Len(t) /\ t[i] \in Digit THEN <<t[i]>> \o DigitRun(t, i + 1) ELSE <<>>

\* parseFloat of a text of the form -?[\d\.]+ : the longest prefix that is a
\* decimal literal, as [nan, neg, int, frac] (the digits before and after the
\* point); NaN when no prefix is one ("." and "-." and "..").
parseFloat(t) ==
    LET neg  == Len(t) >= 1 /\ t[1] = "-"
        i0   == IF neg THEN 2 ELSE 1
        ip   == DigitRun(t, i0)
        dot  == i0 + Len(ip)
        fp   == IF dot <= Len(t) /\ t[dot] = "." THEN DigitRun(t, dot + 1) ELSE <<>>
    IN  [nan |-> Len(ip) = 0 /\ Len(fp) = 0, neg |-> neg, int |-> ip, frac |-> fp]

\* Some digit of d, from position i on, is not 0.
NonZeroFrom(d, i) == \E k \in i..Len(d) : d[k] # "0"

\* The tolerance of the rotation test, in hundredths: 0.05.
RotationTolerance == 5

DigitValue(ch) ==
    CASE ch = "0" -> 0 [] ch = "1" -> 1 [] ch = "2" -> 2 [] ch = "3" -> 3
      [] ch = "4" -> 4 [] ch = "5" -> 5 [] ch = "6" -> 6 [] ch = "7" -> 7
      [] ch = "8" -> 8 [] ch = "9" -> 9

\* Math.abs(v) > 0.05 for a parsed number v; false for NaN.  The hundredths of
\* |v| are compared with the tolerance, then the digits beyond them.
AbsExceeds(v) ==
    /\ ~v.nan
    /\ \/ NonZeroFrom(v.int, 1)
       \/ LET d1 == IF Len(v.frac) >= 1 THEN DigitValue(v.frac[1]) ELSE 0
              d2 == IF Len(v.frac) >= 2 THEN DigitValue(v.frac[2]) ELSE 0
              h  == 10 * d1 + d2
          IN  \/ h > RotationTolerance
              \/ h = RotationTolerance /\ NonZeroFrom(v.frac, 3)

\* Math.abs(b) > 0.05 || Math.abs(c) > 0.05
IsRotated(b, c) == AbsExceeds(parseFloat(b)) \/ AbsExceeds(parseFloat(c))

(***************************************************************************)
(* String.prototype.replace with a global regular expression: the text is  *)
(* scanned from the left; where the expression matches, the match is       *)
(* replaced and the scan goes on after it, otherwise the character is      *)
(* kept.  match[i] is the match at position i: Failed, or [end, del] with  *)
(* the position after the match and whether the replacement is empty (the  *)
(* replacement is the match itself otherwise).                             *)
(*                                                                         *)
(* Replace_Blanking is a variant that overwrites a match with blanks       *)
(* instead of deleting it; C26 tells the two apart.                        *)
(***************************************************************************)
Replace_Blanking(s, match) ==
    LET RECURSIVE Scan(_)
        Scan(i) ==
            LET j == Least({k \in i..Len(s) : match[k].end # NoMatch})
            IN  IF j = NoMatch THEN SubSeq(s, i, Len(s))
                ELSE SubSeq(s, i, j - 1)
                         \o (IF match[j].del THEN [k \in 1..(match[j].end - j) |-> " "]
                             ELSE SubSeq(s, j, match[j].end - 1))
                         \o Scan(match[j].end)
    IN  Scan(1)

Replace(s, match) ==
    LET RECURSIVE Scan(_)
        Scan(i) ==
            LET j == Least({k \in i..Len(s) : match[k].end # NoMatch})
            IN  IF j = NoMatch THEN SubSeq(s, i, Len(s))
                ELSE SubSeq(s, i, j - 1)
                         \o (IF match[j].del THEN <<>> ELSE SubSeq(s, j, match[j].end - 1))
                         \o Scan(match[j].end)
    IN  Scan(1)

(***************************************************************************)
(* Rule 1: marked content tagged /Artifact or /Watermark.                  *)
(***************************************************************************)
L_Artifact == <<"/", "A", "r", "t", "i", "f", "a", "c", "t">>
L_Watermark == <<"/", "W", "a", "t", "e", "r", "m", "a", "r", "k">>
L_BMC == <<"B", "M", "C">>
L_BDC == <<"B", "D", "C">>
L_EMC == <<"E", "M", "C">>
L_DictOpen == <<"<", "<">>
L_DictClose == <<">", ">">>

\* /tag\s*op[\s\S]*?EMC at position i
MarkedAt(s, i, tag, op) ==
    IF ~LitAt(s, i, tag) THEN Failed
    ELSE LET j == SkipWs(s, i + Len(tag))
         IN  IF ~LitAt(s, j, op) THEN Failed
             ELSE LET e == Find(s, j + Len(op), L_EMC)
                  IN  IF e = NoMatch THEN Failed
                      ELSE [end |-> e + Len(L_EMC), del |-> TRUE]

\* [\s\S]*?>>\s*BDC : the first position from i on where >>\s*BDC stands, as
\* the position after BDC.
FindDictBDC(s, i) ==
    LET j == Least({k \in i..Len(s) :
                      /\ LitAt(s, k, L_DictClose)
                      /\ LitAt(s, SkipWs(s, k + Len(L_DictClose)), L_BDC)})
    IN  IF j = NoMatch THEN NoMatch
        ELSE SkipWs(s, j + Len(L_DictClose)) + Len(L_BDC)

\* /Artifact\s*<<[\s\S]*?>>\s*BDC[\s\S]*?EMC at position i
ArtifactPropsAt(s, i) ==
    IF ~LitAt(s, i, L_Artifact) THEN Failed
    ELSE LET j == SkipWs(s, i + Len(L_Artifact))
         IN  IF ~LitAt(s, j, L_DictOpen) THEN Failed
             ELSE LET d == FindDictBDC(s, j + Len(L_DictOpen))
                      e == IF d = NoMatch THEN NoMatch ELSE Find(s, d, L_EMC)
                  IN  IF e = NoMatch THEN Failed
                      ELSE [end |-> e + Len(L_EMC), del |-> TRUE]

\* One replacement of /tag\s*op[\s\S]*?EMC by the empty string.
RemoveMarked(s, tag, op) == Replace(s, [i \in 1..Len(s) |-> MarkedAt(s, i, tag, op)])

\* The replacement of /Artifact\s*<<[\s\S]*?>>\s*BDC[\s\S]*?EMC.
RemoveArtifactProps(s) == Replace(s, [i \in 1..Len(s) |-> ArtifactPropsAt(s, i)])

\* The five replacements of rule 1, in the order of the code.
RemoveMarkedContent(s) ==
    RemoveArtifactProps(
        RemoveMarked(
            RemoveMarked(
                RemoveMarked(
                    RemoveMarked(s, L_Artifact, L_BMC),
                    L_Artifact, L_BDC),
                L_Watermark, L_BMC),
            L_Watermark, L_BDC))

(***************************************************************************)
(* Rule 2: text blocks BT ... ET with a rotated text matrix.               *)
(***************************************************************************)
L_BT == <<"B", "T">>
L_ET == <<"E", "T">>
L_Tm == <<"T", "m">>
L_cm == <<"c", "m">>
L_q == <<"q">>
L_Q == <<"Q">>
L_Do == <<"D", "o">>

\* The next match of tmRegex in block from position i on (tmRegex.exec with
\* lastIndex = i - 1): [b, c, end], or Failed (exec gives null).
tmRegexExec(block, i) ==
    SixNumsOp(block,
              Least({k \in i..Len(block) : SixNumsOp(block, k, L_Tm).end # NoMatch}),
              L_Tm)

\* The while loop of the callback, m being the match exec gave: some match of
\* tmRegex in block, taken in turn, is rotated.
RECURSIVE TmLoop(_, _)
TmLoop(block, m) ==
    IF m.end = NoMatch THEN FALSE
    ELSE IF IsRotated(m.b, m.c) THEN TRUE
    ELSE TmLoop(block, tmRegexExec(block, m.end))

\* The callback of rule 2: isRotated after the loop.
HasRotatedTm(block) == TmLoop(block, tmRegexExec(block, 1))

\* BT[\s\S]*?ET at position i, with the callback's decision.
TextBlockAt(s, i) ==
    IF ~LitAt(s, i, L_BT) THEN Failed
    ELSE LET e == Find(s, i + Len(L_BT), L_ET)
         IN  IF e = NoMatch THEN Failed
             ELSE [end |-> e + Len(L_ET),
                   del |-> HasRotatedTm(SubSeq(s, i, e + Len(L_ET) - 1))]

RemoveRotatedTextBlocks(s) == Replace(s, [i \in 1..Len(s) |-> TextBlockAt(s, i)])

(***************************************************************************)
(* Rules 3 and 4: graphics-state groups q <matrix> cm ... Q.               *)
(***************************************************************************)
\* \s+ after the matrix m of a group head.
HeadEnd(s, m) ==
    IF m.end = NoMatch THEN Failed
    ELSE IF Ws1(s, m.end) = NoMatch THEN Failed
    ELSE [b |-> m.b, c |-> m.c, end |-> Ws1(s, m.end)]

\* q\s+(six numbers)\s+cm\s+ at position i: [b, c, end], or Failed.
GroupHeadAt(s, i) ==
    IF ~LitAt(s, i, L_q) THEN Failed
    ELSE HeadEnd(s, SixNumsOp(s, Ws1(s, i + Len(L_q)), L_cm))

\* [\s\S]*?lit after a match that ends at p.
FindAfter(s, p, lit) ==
    IF p = NoMatch THEN NoMatch
    ELSE IF Find(s, p, lit) = NoMatch THEN NoMatch
    ELSE Find(s, p, lit) + Len(lit)

\* The group that starts with the head h is deleted when h is rotated, and
\* kept as it is otherwise; it ends at e.
GroupFrom(h, e) ==
    IF e = NoMatch THEN Failed ELSE [end |-> e, del |-> IsRotated(h.b, h.c)]

\* [\s\S]*?BT[\s\S]*?ET[\s\S]*?Q after the head h: the position after Q.
TextGroupEnd(s, h) ==
    FindAfter(s, FindAfter(s, FindAfter(s, h.end, L_BT), L_ET), L_Q)

\* Rule 3: <head>[\s\S]*?BT[\s\S]*?ET[\s\S]*?Q at position i.
TextGroupFrom(s, h) == GroupFrom(h, TextGroupEnd(s, h))
TextGroupAt(s, i) == TextGroupFrom(s, GroupHeadAt(s, i))

RemoveRotatedTextGroups(s) == Replace(s, [i \in 1..Len(s) |-> TextGroupAt(s, i)])

\* [a-zA-Z0-9_]+ (greedy)
SkipName(s, i) ==
    IF i > Len(s) THEN i
    ELSE Least({j \in i..(Len(s) + 1) : j > Len(s) \/ s[j] \notin NameChar})

\* \/[a-zA-Z0-9_]+\s+Do\s+Q at position i: the position after Q, or NoMatch.
DoQAt(s, i) ==
    IF ~(i >= 1 /\ i <= Len(s) /\ s[i] = "/") THEN NoMatch
    ELSE LET n == SkipName(s, i + 1)
             w == IF n = i + 1 THEN NoMatch ELSE Ws1(s, n)
             d == IF w = NoMatch \/ ~LitAt(s, w, L_Do) THEN NoMatch
                  ELSE Ws1(s, w + Len(L_Do))
         IN  IF d = NoMatch \/ ~LitAt(s, d, L_Q) THEN NoMatch ELSE d + Len(L_Q)

\* [\s\S]*?\/[a-zA-Z0-9_]+\s+Do\s+Q : the first position from i on where the
\* placement stands, as the position after its Q.
FindDoQ(s, i) ==
    IF i < 1 THEN NoMatch
    ELSE DoQAt(s, Least({k \in i..Len(s) : DoQAt(s, k) # NoMatch}))

\* Rule 4: <head>[\s\S]*?\/[a-zA-Z0-9_]+\s+Do\s+Q at position i.
XObjectGroupFrom(s, h) == GroupFrom(h, FindDoQ(s, h.end))
XObjectGroupAt(s, i) == XObjectGroupFrom(s, GroupHeadAt(s, i))

RemoveRotatedXObjects(s) == Replace(s, [i \in 1..Len(s) |-> XObjectGroupAt(s, i)])

(***************************************************************************)
(* Rule 5: show operators whose string holds a known watermark string.     *)
(***************************************************************************)
badStrings == << <<"H", "a", "r", "d", "i", "k">>, <<"K", "a", "b", "r", "a">> >>

L_Tj == <<"T", "j">>
L_TJ == <<"T", "J">>

\* The first position from i on that holds the character ch, or NoMatch.
FindChar(s, i, ch) == Least({j \in i..Len(s) : s[j] = ch})

\* open [^close]* w [^close]* close \s* op, flags gi, at position i: the text
\* between the opening character and the first closing character holds w, and
\* the operator follows the closing character; letter case is ignored.
ShowAt(s, i, open, close, w, op) ==
    IF ~(i <= Len(s) /\ s[i] = open) THEN Failed
    ELSE LET c == FindChar(s, i + 1, close)
         IN  IF c = NoMatch THEN Failed
             ELSE IF ~\E k \in (i + 1)..(c - Len(w)) : LitAtI(s, k, w) THEN Failed
             ELSE LET o == SkipWs(s, c + 1)
                  IN  IF LitAtI(s, o, op) THEN [end |-> o + Len(op), del |-> TRUE]
                      ELSE Failed

\* One replacement of a show operator whose string holds w.
RemoveShow(s, open, close, w, op) ==
    Replace(s, [i \in 1..Len(s) |-> ShowAt(s, i, open, close, w, op)])

\* The two replacements of one watermark string w.
RemoveShown(s, w) == RemoveShow(RemoveShow(s, "(", ")", w, L_Tj), "[", "]", w, L_TJ)

\* badStrings.forEach
RECURSIVE RemoveBadStrings(_, _)
RemoveBadStrings(s, k) ==
    IF k > Len(badStrings) THEN s
    ELSE RemoveBadStrings(RemoveShown(s, badStrings[k]), k + 1)

(***************************************************************************)
(* cleanContentStream: the five rules in order.                            *)
(***************************************************************************)
cleanContentStream(stream) ==
    RemoveBadStrings(
        RemoveRotatedXObjects(
            RemoveRotatedTextGroups(
                RemoveRotatedTextBlocks(
                    RemoveMarkedContent(stream)))), 1)

(***************************************************************************)
(* Stream texts.  A text is put together from operands and operators       *)
(* separated by one space.                                                 *)
(***************************************************************************)
RECURSIVE Join(_)
Join(ts) ==
    IF Len(ts) = 0 THEN <<>>
    ELSE IF Len(ts) = 1 THEN ts[1]
    ELSE ts[1] \o <<" ">> \o Join(Tail(ts))

N_0 == <<"0">>
N_1 == <<"1">>
N_7 == <<"7">>
N_40 == <<"4", "0">>
N_100 == <<"1", "0", "0">>
N_200 == <<"2", "0", "0">>
N_07 == <<"0", ".", "7">>
N_m07 == <<"-", "0", ".", "7">>
Nm_F1 == <<"/", "F", "1">>
Nm_Im1 == <<"/", "I", "m", "1">>
Nm_Im2 == <<"/", "I", "m", "2">>
L_Tf == <<"T", "f">>
S_Hello == <<"(", "H", "e", "l", "l", "o", ")">>
S_Page == <<"(", "P", "a", "g", "e", ")">>
S_Hardik == <<"(", "H", "a", "r", "d", "i", "k", ")">>
S_CONFIDENTIAL ==
    <<"(", "C", "O", "N", "F", "I", "D", "E", "N", "T", "I", "A", "L", ")">>

\* BT 1 0 0 1 7 7 Tm (Hello) Tj ET : an axis-aligned text block
PlainBlock == Join(<<L_BT, N_1, N_0, N_0, N_1, N_7, N_7, L_Tm, S_Hello, L_Tj, L_ET>>)

\* q 0.7 0.7 -0.7 0.7 100 200 cm BT /F1 40 Tf (CONFIDENTIAL) Tj ET Q
RotatedTextGroup ==
    Join(<<L_q, N_07, N_07, N_m07, N_07, N_100, N_200, L_cm,
           L_BT, Nm_F1, N_40, L_Tf, S_CONFIDENTIAL, L_Tj, L_ET, L_Q>>)

\* q 0.7 0.7 -0.7 0.7 0 0 cm /Im1 Do : a rotated image placement, not closed
RotatedImageOpen == Join(<<L_q, N_07, N_07, N_m07, N_07, N_0, N_0, L_cm, Nm_Im1, L_Do>>)

\* q 0.7 0.7 -0.7 0.7 0 0 cm /Im1 Do Q : a rotated image placement
RotatedImageGroup == Join(<<RotatedImageOpen, L_Q>>)

\* q 1 0 0 1 0 0 cm /Im2 Do Q : an axis-aligned image placement
PlainImageGroup == Join(<<L_q, N_1, N_0, N_0, N_1, N_0, N_0, L_cm, Nm_Im2, L_Do, L_Q>>)

\* (Hardik) Tj : a show operator with a known watermark string
DeniedShow == Join(<<S_Hardik, L_Tj>>)

\* /Artifact BMC (Page) Tj EMC : a marked-content artifact
ArtifactBlock == Join(<<L_Artifact, L_BMC, S_Page, L_Tj, L_EMC>>)

\* The pieces the stream texts of the model are put together from.
Fragments ==
    <<PlainBlock, RotatedTextGroup, RotatedImageGroup, PlainImageGroup,
      RotatedImageOpen, DeniedShow, L_Q, ArtifactBlock>>

\* The most pieces in a stream text.
MaxFragments == 3

\* The stream texts: every sequence of at most MaxFragments pieces.
StreamTexts ==
    { Join([k \in 1..Len(f) |-> Fragments[f[k]]]) :
        f \in UNION { [1..n -> 1..Len(Fragments)] : n \in 0..MaxFragments } }

(***************************************************************************)
(* Bytes and codecs.  A byte below 0x80 is written as its character; the   *)
(* other bytes of the model are named xNN.  A code unit of a decoded text  *)
(* is a character, or U+FFFD (the replacement character).                  *)
(***************************************************************************)
Utf8Replacement == <<"xEF", "xBF", "xBD">>

HighBytes == {"xEF", "xBF", "xBD", "xFF", "x78", "x01", "x9C", "xDA", "adler32", "x80"}

\* The concatenation of the sequences ss[lo..hi].
RECURSIVE Flatten(_, _, _)
Flatten(ss, lo, hi) ==
    IF lo > hi THEN <<>>
    ELSE IF lo = hi THEN ss[lo]
    ELSE LET mid == (lo + hi) \div 2
         IN  Flatten(ss, lo, mid) \o Flatten(ss, mid + 1, hi)

\* new TextDecoder().decode(bytes): UTF-8, every ill-formed byte gives U+FFFD.
TextDecode(bytes) ==
    LET Starts(i) == LitAt(bytes, i, Utf8Replacement)
        Inside(i) == (i > 1 /\ Starts(i - 1)) \/ (i > 2 /\ Starts(i - 2))
        Unit(i) ==
            IF Starts(i) THEN <<"U+FFFD">>
            ELSE IF Inside(i) THEN <<>>
            ELSE IF bytes[i] \in HighBytes THEN <<"U+FFFD">>
            ELSE <<bytes[i]>>
    IN  Flatten([i \in 1..Len(bytes) |-> Unit(i)], 1, Len(bytes))

\* new TextEncoder().encode(str): UTF-8.
TextEncode(str) ==
    Flatten([i \in 1..Len(str) |->
                IF str[i] = "U+FFFD" THEN Utf8Replacement ELSE <<str[i]>>],
            1, Len(str))

Reverse(b) == [i \in 1..Len(b) |-> b[Len(b) + 1 - i]]

\* The second byte of a zlib stream, one for each compression level.
ZlibLevels == {"x01", "x9C", "xDA"}

\* A zlib stream of data written at a given level: header, the compressed
\* data (not readable as text: the data reversed), checksum.
ZlibStream(level, data) == <<"x78", level>> \o Reverse(data) \o <<"adler32">>

\* pako.deflate(data): the default level.
Deflate(data) == ZlibStream("x9C", data)

\* pako.inflate(z) throws unless z is a zlib stream.
InflateThrows(z) ==
    ~(Len(z) >= 3 /\ z[1] = "x78" /\ z[2] \in ZlibLevels /\ z[Len(z)] = "adler32")

\* pako.inflate(z)
Inflate(z) == Reverse(SubSeq(z, 3, Len(z) - 1))

(***************************************************************************)
(* PDF objects.  A dictionary is a function from its keys to its values.   *)
(***************************************************************************)
\* PDFDict.delete(key)
DictDelete(d, key) == [k \in (DOMAIN d) \ {key} |-> d[k]]

RECURSIVE DictDeleteAll(_, _)
DictDeleteAll(d, keys) ==
    IF keys = {} THEN d
    ELSE LET k == CHOOSE x \in keys : TRUE
         IN  DictDeleteAll(DictDelete(d, k), keys \ {k})

\* A content stream object: its payload, and the Filter and Length entries
\* of its dictionary.  Filter is "None" (no entry), a name, or
\* "[FlateDecode]" (a PDFArray holding the name).
StreamObject(contents, filter) ==
    [contents |-> contents, Filter |-> filter, Length |-> Len(contents)]

\* Array.isArray(filter): a PDFName and a PDFArray are no JavaScript arrays.
IsJsArray(filter) == FALSE

\* filter === PDFName.of('FlateDecode') ||
\*   (Array.isArray(filter) && filter.includes(PDFName.of('FlateDecode')))
IsFlate(filter) ==
    filter = "FlateDecode" \/ (IsJsArray(filter) /\ filter = "[FlateDecode]")

\* A variant of the test below that takes every stream as changed; C4 tells
\* the two apart.
Changed_Always(contentStr, cleanedStr) == TRUE

\* contentStr.length !== cleanedStr.length
Changed(contentStr, cleanedStr) == Len(contentStr) # Len(cleanedStr)

\* A variant of the rewrite below that assigns the payload only; C5 tells the
\* two apart.
Rewritten_PayloadOnly(st, newData) == [st EXCEPT !.contents = newData]

\* The stream after the three assignments of a rewrite.
Rewritten(st, newData) ==
    [st EXCEPT !.contents = newData,
               !.Filter = "FlateDecode",
               !.Length = Len(newData)]

\* The text the loop body hands to cleanContentStream (the stream inflates).
ContentStr(st) ==
    TextDecode(IF IsFlate(st.Filter) THEN Inflate(st.contents) ELSE st.contents)

\* if (contentStr.length !== cleanedStr.length) { ... }
StreamAfter(st, contentStr, cleanedStr) ==
    IF Changed(contentStr, cleanedStr)
    THEN Rewritten(st, Deflate(TextEncode(cleanedStr)))
    ELSE st

\* The body of the loop over contentStreams for a stream that inflates: the
\* stream as the iteration leaves it.
CleanStream(st) == StreamAfter(st, ContentStr(st), cleanContentStream(ContentStr(st)))

\* The inner try block throws: the stream declares FlateDecode and its
\* payload does not inflate.
DecompressionFails(st) == IsFlate(st.Filter) /\ InflateThrows(st.contents)

\* context.lookup(ref) for the XObjects of the model: an XObject is a stream
\* (PDFRawStream); "9 0 R" is a plain dictionary standing in an XObject slot.
Lookup(ref) ==
    CASE ref = "7 0 R" -> [class |-> "PDFRawStream", Subtype |-> "Image"]
      [] ref = "8 0 R" -> [class |-> "PDFRawStream", Subtype |-> "Form"]
      [] ref = "9 0 R" -> [class |-> "PDFDict", Subtype |-> "Form"]

\* obj instanceof PDFDict && obj.get(PDFName.of('Subtype')) === PDFName.of('Form')
IsFormDict(ref) == Lookup(ref).class = "PDFDict" /\ Lookup(ref).Subtype = "Form"

(***************************************************************************)
(* The sharing threshold.                                                  *)
(***************************************************************************)
\* 0.8, in tenths
SharedRatio == 8

\* The threshold of a document of at most SmallDocument pages.
NeverShared == 999

SmallDocument == 2

\* A variant of the threshold below under which any usage is shared in a
\* small document; C10 tells the two apart.
sharedThreshold_AnyUsage(pageCount) ==
    IF pageCount > SmallDocument THEN (pageCount * SharedRatio + 9) \div 10 ELSE 1

\* pageCount > 2 ? Math.ceil(pageCount * 0.8) : 999
sharedThreshold(pageCount) ==
    IF pageCount > SmallDocument
    THEN (pageCount * SharedRatio + 9) \div 10
    ELSE NeverShared

\* The keys of a page's XObject dictionary as the code reaches them, with the
\* object each names: Resources and XObject must be direct dictionaries.
ReachableXObjects(page) ==
    IF page.resources.kind = "direct" /\ page.resources.xobject.kind = "direct"
    THEN page.resources.xobject.dict
    ELSE <<>>

\* The map built by pages.forEach: for every reference, the number of
\* (page, key) entries that hold it.
UsageOf(ps) ==
    LET refs == UNION { { ReachableXObjects(ps[p])[k] : k \in DOMAIN ReachableXObjects(ps[p]) }
                        : p \in 1..Len(ps) }
    IN  [r \in refs |->
            Cardinality({ e \in UNION { {p} \X DOMAIN ReachableXObjects(ps[p]) : p \in 1..Len(ps) } :
                            ReachableXObjects(ps[e[1]])[e[2]] = r })]

\* A variant of the map below that is one map for all calls (a module-level
\* Map): the pages of the other call are counted too; C19 tells the two apart.
UsageSeenBy_Shared(own, other) == UsageOf(own \o other)

\* const xObjectUsage = new Map() inside removeWatermarks: the map of a call
\* is made by the call and counts the pages of its own document only, whatever
\* pages another call has loaded.
UsageSeenBy(own, other) == UsageOf(own)

\* xObjectUsage.forEach((count, id) => { if (count >= sharedThreshold) ... })
SharedIds(usage, pageCount) ==
    { id \in DOMAIN usage : usage[id] >= sharedThreshold(pageCount) }

\* A variant of the keys below that also deletes a size entry; C8 tells the
\* two apart.
PageCleanupKeys_WithRotate == {"Annots", "PieceInfo", "StructParents", "Rotate"}

\* The keys page.node.delete is called with.
PageCleanupKeys == {"Annots", "PieceInfo", "StructParents"}

\* A variant of the keys below without the permissions dictionary; C15
\* tells the two apart.
CatalogCleanupKeys_NoPerms == {"OCProperties", "AcroForm"}

\* The keys catalog.delete is called with.
CatalogCleanupKeys == {"OCProperties", "Perms", "AcroForm"}

\* The page after steps 3 of the loop body: page-level and resource cleanup.
CleanedPage(page, ids) ==
    LET res == page.resources
        xd  == res.xobject.dict
        gone == { k \in DOMAIN xd : xd[k] \in ids \/ IsFormDict(xd[k]) }
    IN  [page EXCEPT
            !.dict = DictDeleteAll(@, PageCleanupKeys),
            !.resources =
                IF res.kind # "direct" THEN res
                ELSE [res EXCEPT
                        !.dict = DictDelete(@, "Properties"),
                        !.xobject = IF res.xobject.kind # "direct" THEN @
                                    ELSE [@ EXCEPT !.dict = DictDeleteAll(xd, gone)]]]

(***************************************************************************)
(* Documents.                                                              *)
(***************************************************************************)
\* BT 1 0 0 1 7 7 Tm (Hello) Tj ET : a text no rule deletes from
BodyText == PlainBlock

\* The body text followed by a rotated image placement, which rule 4 deletes.
StampedText == Join(<<PlainBlock, RotatedImageGroup>>)

\* Content streams: not compressed, compressed (by a producer whose level is
\* not pako's), and one that declares FlateDecode over a payload that is no
\* zlib stream.
RawBody == StreamObject(TextEncode(BodyText), "None")
PackedBody == StreamObject(ZlibStream("xDA", TextEncode(BodyText)), "FlateDecode")
RawStamped == StreamObject(TextEncode(StampedText), "None")
PackedStamped == StreamObject(ZlibStream("x01", TextEncode(StampedText)), "FlateDecode")
CorruptStamped == StreamObject(TextEncode(StampedText), "FlateDecode")

\* The entries of a page dictionary other than Resources and Contents.
PageEntries ==
    [k \in {"MediaBox", "CropBox", "Rotate", "Annots", "PieceInfo", "StructParents"} |->
        CASE k = "MediaBox" -> <<0, 0, 612, 792>>
          [] k = "CropBox" -> <<10, 10, 602, 782>>
          [] k = "Rotate" -> 90
          [] OTHER -> k]

\* A Resources dictionary: how the page holds it (a direct dictionary, an
\* indirect reference, or inherited from the page tree: no own entry), its
\* Properties entry, and its XObject dictionary (direct or indirect).
Resources(kind, xkind, xdict) ==
    [kind |-> kind,
     dict |-> [k \in {"Properties", "Font"} |-> k],
     xobject |-> [kind |-> xkind, dict |-> xdict]]

NoXObjects == <<>>
OneImage == [k \in {"Im1"} |-> "7 0 R"]
ImageAndForms ==
    [k \in {"Im1", "Fm1", "Fx1"} |->
        CASE k = "Im1" -> "7 0 R" [] k = "Fm1" -> "8 0 R" [] k = "Fx1" -> "9 0 R"]

\* A page: Contents is one stream, an array of streams, or absent.
Page(resources, form, streams) ==
    [dict |-> PageEntries, resources |-> resources,
     contents |-> [form |-> form, streams |-> streams]]

\* The pages the documents of SpecDoc are made of: their content streams vary.
StreamPages ==
    <<Page(Resources("direct", "direct", OneImage), "stream", <<RawBody>>),
      Page(Resources("direct", "direct", OneImage), "stream", <<PackedStamped>>),
      Page(Resources("direct", "direct", OneImage), "array", <<CorruptStamped, RawStamped>>),
      Page(Resources("direct", "direct", OneImage), "array", <<PackedBody, CorruptStamped>>),
      Page(Resources("direct", "direct", OneImage), "absent", <<>>)>>

\* The pages the documents of SpecShared are made of: their resources vary.
SharedPages ==
    <<Page(Resources("direct", "direct", OneImage), "stream", <<RawStamped>>),
      Page(Resources("direct", "direct", NoXObjects), "absent", <<>>),
      Page(Resources("indirect", "direct", OneImage), "absent", <<>>),
      Page(Resources("direct", "direct", ImageAndForms), "absent", <<>>)>>

\* A stream under RunLengthDecode: a length byte, the run of literal bytes it
\* announces (the stamped text as it is), and the end-of-data byte.
RunLengthStamped ==
    StreamObject(<<"x1A">> \o TextEncode(StampedText) \o <<"x80">>, "RunLengthDecode")

\* A compressed stream whose Filter entry is the array [/FlateDecode].
PackedArrayStamped ==
    StreamObject(ZlibStream("x9C", TextEncode(StampedText)), "[FlateDecode]")

\* A rotated image placement written in two streams: q ... cm /Im1 Do and Q.
OpenPart == StreamObject(TextEncode(RotatedImageOpen \o <<" ">>), "None")
ClosePart == StreamObject(TextEncode(L_Q), "None")

\* The pages the documents of SpecSplit are made of: streams under other
\* filters, and operators split over the streams of a Contents array.
SplitPages ==
    <<Page(Resources("direct", "direct", OneImage), "stream", <<RunLengthStamped>>),
      Page(Resources("direct", "direct", OneImage), "array", <<PackedArrayStamped, RawStamped>>),
      Page(Resources("direct", "direct", OneImage), "array", <<OpenPart, ClosePart>>),
      Page(Resources("direct", "direct", OneImage), "array", <<RawBody, RawStamped>>)>>

\* BI ID . EI : an inline image whose data is the byte 0xFF, which is no
\* UTF-8 text.
InlineImage == <<"B", "I", " ", "I", "D", " ", "xFF", " ", "E", "I">>

\* The bytes of the body text and an inline image, and of the same followed
\* by a rotated image placement.
BinaryBody == TextEncode(PlainBlock) \o <<" ">> \o InlineImage
BinaryStamped == BinaryBody \o <<" ">> \o TextEncode(RotatedImageGroup)

RawBinaryBody == StreamObject(BinaryBody, "None")
RawBinaryStamped == StreamObject(BinaryStamped, "None")
PackedBinaryStamped == StreamObject(ZlibStream("x01", BinaryStamped), "FlateDecode")

\* The pages the documents of SpecBinary are made of: content streams with
\* image data in them.
BinaryPages ==
    <<Page(Resources("direct", "direct", OneImage), "stream", <<RawBinaryStamped>>),
      Page(Resources("direct", "direct", OneImage), "stream", <<PackedBinaryStamped>>),
      Page(Resources("direct", "direct", OneImage), "array", <<RawBinaryBody, RawStamped>>)>>

\* Two names of a page's XObject dictionary for one image.
TwoNames == [k \in {"Im1", "Im2"} |-> "7 0 R"]

\* BT 1 0 0 1 7 7 Tm (Hello) Tj ET q 1 0 0 1 0 0 cm /Im1 Do Q : the body text
\* and an axis-aligned placement of the image the page names Im1.
PlacedText == Join(<<PlainBlock, L_q, N_1, N_0, N_0, N_1, N_0, N_0, L_cm, Nm_Im1, L_Do, L_Q>>)
RawPlaced == StreamObject(TextEncode(PlacedText), "None")

\* The pages the documents of SpecPlaced are made of: pages that place the
\* image they name, under one name or under two, and a page without XObjects.
PlacedPages ==
    <<Page(Resources("direct", "direct", TwoNames), "stream", <<RawPlaced>>),
      Page(Resources("direct", "direct", OneImage), "stream", <<RawPlaced>>),
      Page(Resources("direct", "direct", NoXObjects), "absent", <<>>)>>

\* The most pages of a document of SpecPlaced.
MaxPlacedPages == 3

\* The most pages of a document of SpecDoc, and of SpecShared.
MaxStreamPages == 2
MaxSharedPages == 4

\* The catalog of every document of the model.
Catalog ==
    [k \in {"Type", "Pages", "OCProperties", "Perms", "AcroForm"} |-> k]

\* The documents of at most n pages taken from ps, the one of no page included.
Documents(ps, n) ==
    { [catalog |-> Catalog, pages |-> [k \in 1..Len(f) |-> ps[f[k]]]] :
        f \in UNION { [1..m -> 1..Len(ps)] : m \in 0..n } }

\* What a file holds when it holds no PDF.
NoDocument == [catalog |-> <<>>, pages |-> <<>>]

\* The input files: a PDF, bytes that are no PDF, and a file that cannot be
\* read.
Files(ps, n) ==
    { [kind |-> "pdf", doc |-> d] : d \in Documents(ps, n) }
        \cup { [kind |-> "garbage", doc |-> NoDocument],
               [kind |-> "unreadable", doc |-> NoDocument] }

(***************************************************************************)
(* State.                                                                  *)
(***************************************************************************)
VARIABLES
    stream,        \* the decoded text handed to cleanContentStream
    cleanedStr,    \* cleanContentStream(stream), once computed
    recleanedStr,  \* cleanContentStream(cleanedStr), once computed
    passes,        \* how many times the cleaner has run: 0, 1 or 2
    matrix,        \* the matrix the text of stream was written from, if any
    file,          \* the File removeWatermarks is called with
    pc,            \* where removeWatermarks stands
    catalog,       \* the catalog dictionary of pdfDoc
    pages,         \* the page nodes of pdfDoc, with their content streams
    xObjectUsage,  \* the usage map
    idsToRemove,   \* the references classified as shared
    pageIndex,     \* the page the for loop is at
    streamIndex,   \* the stream the inner for loop is at
    failure,       \* what rejected the call: "none", "read", "load", "save", "stream"
    warned,        \* the (page, stream) places whose failure was caught and logged
    visited,       \* the (page, stream) places the stream loop has run for, in order
    output,        \* the Blob the call resolved with, or NoBlob
    peer           \* a second removeWatermarks call, in flight at the same time

cleanVars == <<stream, cleanedStr, recleanedStr, passes, matrix>>
docVars == <<file, pc, catalog, pages, xObjectUsage, idsToRemove, pageIndex,
             streamIndex, failure, warned, visited, output, peer>>
vars == <<stream, cleanedStr, recleanedStr, passes, matrix, file, pc, catalog, pages,
          xObjectUsage, idsToRemove, pageIndex, streamIndex, failure, warned, visited,
          output, peer>>

\* The call has not resolved: there is no Blob.
NoBlob == [type |-> "none"]

\* No second call.
NoCall ==
    [file |-> [kind |-> "garbage", doc |-> NoDocument], pc |-> "idle",
     catalog |-> <<>>, pages |-> <<>>, failure |-> "none", output |-> NoBlob]

\* No removeWatermarks call.
IdleDoc ==
    /\ file = [kind |-> "garbage", doc |-> NoDocument]
    /\ pc = "idle"
    /\ catalog = <<>>
    /\ pages = <<>>
    /\ xObjectUsage = <<>>
    /\ idsToRemove = {}
    /\ pageIndex = 0
    /\ streamIndex = 0
    /\ failure = "none"
    /\ warned = {}
    /\ visited = <<>>
    /\ output = NoBlob
    /\ peer = NoCall

\* The text of stream was not written from a matrix.
NoMatrix == [kind |-> "none", ops |-> <<>>]

\* No cleanContentStream call of its own.
IdleClean ==
    /\ stream = <<>>
    /\ cleanedStr = <<>>
    /\ recleanedStr = <<>>
    /\ passes = 0
    /\ matrix = NoMatrix

(***************************************************************************)
(* The cleaner applied to a stream text, and again to its own output.      *)
(***************************************************************************)
InitClean ==
    /\ stream \in StreamTexts
    /\ cleanedStr = <<>>
    /\ recleanedStr = <<>>
    /\ passes = 0
    /\ matrix = NoMatrix
    /\ IdleDoc

\* const cleanedStr = cleanContentStream(contentStr)
CleanOnce ==
    /\ passes = 0
    /\ pc = "idle"
    /\ cleanedStr' = cleanContentStream(stream)
    /\ passes' = 1
    /\ UNCHANGED <<stream, recleanedStr, matrix>>
    /\ UNCHANGED docVars

\* The cleaner run on its own output (a second run of the operation).
CleanAgain ==
    /\ passes = 1
    /\ pc = "idle"
    /\ recleanedStr' = cleanContentStream(cleanedStr)
    /\ passes' = 2
    /\ UNCHANGED <<stream, cleanedStr, matrix>>
    /\ UNCHANGED docVars

NextClean == CleanOnce \/ CleanAgain

SpecClean == InitClean /\ [][NextClean]_vars

(***************************************************************************)
(* Stream texts with nested regions, regions without an end keyword, and   *)
(* strings that hold parentheses or keywords, cleaned once and again.      *)
(***************************************************************************)
Nm_Span == <<"/", "S", "p", "a", "n">>
S_SECRET == <<"(", "S", "E", "C", "R", "E", "T", ")">>

\* ((c) Hardik) Tj : a literal string with balanced parentheses in it
NestedShow ==
    Join(<< <<"(", "(", "c", ")">>, <<"H", "a", "r", "d", "i", "k", ")">>, L_Tj >>)

\* [(a) (HARDIK)] TJ : the array form, the watermark string in upper case
DeniedArray ==
    Join(<< <<"[", "(", "a", ")">>,
            <<"(", "H", "A", "R", "D", "I", "K", ")", "]">>, L_TJ >>)

\* /Artifact BMC /Span BMC (Page) Tj EMC (Page) Tj EMC : an artifact block
\* with a marked-content block nested in it
NestedArtifact ==
    Join(<<L_Artifact, L_BMC, Nm_Span, L_BMC, S_Page, L_Tj, L_EMC, S_Page, L_Tj, L_EMC>>)

\* q 0.7 0.7 -0.7 0.7 0 0 cm : the head of a rotated group
RotatedHead == Join(<<L_q, N_07, N_07, N_m07, N_07, N_0, N_0, L_cm>>)

\* 0.7 0.7 -0.7 0.7 0 0 Tm : a rotated text matrix
RotatedTm == Join(<<N_07, N_07, N_m07, N_07, N_0, N_0, L_Tm>>)

\* BT 0.7 0.7 -0.7 0.7 0 0 Tm (Hello) Tj ET
RotatedBlock == Join(<<L_BT, RotatedTm, S_Hello, L_Tj, L_ET>>)

\* BT 0.7 0.7 -0.7 0.7 0 0 Tm (SECRET) Tj ET : the string holds the letters ET
RotatedSecretBlock == Join(<<L_BT, RotatedTm, S_SECRET, L_Tj, L_ET>>)

\* BT 1 0 0 1 7 7 Tm (Hello) Tj 0.7 0.7 -0.7 0.7 0 0 Tm (Hello) Tj ET
TwoTmBlock ==
    Join(<<L_BT, N_1, N_0, N_0, N_1, N_7, N_7, L_Tm, S_Hello, L_Tj,
           RotatedTm, S_Hello, L_Tj, L_ET>>)

RegionFragments ==
    <<NestedShow, DeniedShow, DeniedArray, NestedArtifact, ArtifactBlock, RotatedHead,
      PlainBlock, PlainImageGroup, RotatedBlock, RotatedSecretBlock, TwoTmBlock>>

\* The most fragments of a text of RegionTexts.
MaxRegionFragments == 3

RegionTexts ==
    { Join([k \in 1..Len(f) |-> RegionFragments[f[k]]]) :
        f \in UNION { [1..n -> 1..Len(RegionFragments)] : n \in 0..MaxRegionFragments } }

InitRegions ==
    /\ stream \in RegionTexts
    /\ cleanedStr = <<>>
    /\ recleanedStr = <<>>
    /\ passes = 0
    /\ matrix = NoMatrix
    /\ IdleDoc

SpecRegions == InitRegions /\ [][NextClean]_vars

(***************************************************************************)
(* Stream texts of graphics-state groups, one after the other and one in   *)
(* the other.                                                              *)
(***************************************************************************)
\* q 1 0 0 1 0 0 cm : the head of an axis-aligned group
AxisHead == Join(<<L_q, N_1, N_0, N_0, N_1, N_0, N_0, L_cm>>)

\* q 1 0 0 1 0 0 cm BT /F1 40 Tf (Hello) Tj ET Q : an axis-aligned group
\* around a text block
AxisTextGroup == Join(<<AxisHead, L_BT, Nm_F1, N_40, L_Tf, S_Hello, L_Tj, L_ET, L_Q>>)

\* q 0.7 0.7 -0.7 0.7 0 0 cm 0 0 7 7 re f Q : a rotated group that fills a
\* rectangle, without text and without XObject
RotatedFill == Join(<<RotatedHead, N_0, N_0, N_7, N_7, <<"r", "e">>, <<"f">>, L_Q>>)

GroupFragments ==
    <<RotatedImageGroup, PlainImageGroup, AxisTextGroup, RotatedFill, PlainBlock,
      AxisHead, L_Q>>

\* The most fragments of a text of GroupTexts.
MaxGroupFragments == 3

GroupTexts ==
    { Join([k \in 1..Len(f) |-> GroupFragments[f[k]]]) :
        f \in UNION { [1..n -> 1..Len(GroupFragments)] : n \in 0..MaxGroupFragments } }

InitGroups ==
    /\ stream \in GroupTexts
    /\ cleanedStr = <<>>
    /\ recleanedStr = <<>>
    /\ passes = 0
    /\ matrix = NoMatrix
    /\ IdleDoc

SpecGroups == InitGroups /\ [][NextClean]_vars

(***************************************************************************)
(* Stream texts written from one matrix: a text block with a Tm, a group   *)
(* with a cm around a text block, a group with a cm around an image.  An   *)
(* operand is a text with what it stands for: whether it is a number of    *)
(* the PDF syntax, and the thousandths of its absolute value.              *)
(***************************************************************************)
\* The value of a run of digits.
RECURSIVE DigitsValue(_)
DigitsValue(d) ==
    IF Len(d) = 0 THEN 0 ELSE 10 * DigitsValue(SubSeq(d, 1, Len(d) - 1)) + DigitValue(d[Len(d)])

\* The thousandths a fraction of at most three digits stands for.
FractionMilli(fp) ==
    CASE Len(fp) = 0 -> 0
      [] Len(fp) = 1 -> 100 * DigitsValue(fp)
      [] Len(fp) = 2 -> 10 * DigitsValue(fp)
      [] Len(fp) = 3 -> DigitsValue(fp)

\* The PDF number sign ip dot fp, e.g. Decimal(<<"-">>, <<"3">>, <<".">>, <<"2", "5">>).
Decimal(sign, ip, dot, fp) ==
    [text |-> sign \o ip \o dot \o fp, wf |-> TRUE,
     milli |-> 1000 * DigitsValue(ip) + FractionMilli(fp)]

\* A text that is no number of the PDF syntax.
Malformed(text) == [text |-> text, wf |-> FALSE, milli |-> 0]

\* Numbers at, next to and away from the tolerance, in the forms and with the
\* signs the PDF syntax allows.
Numbers ==
    { Decimal(<<>>, <<"0">>, <<>>, <<>>),
      Decimal(<<>>, <<"1">>, <<>>, <<>>),
      Decimal(<<>>, <<"0">>, <<".">>, <<"0", "5">>),
      Decimal(<<"-">>, <<"0">>, <<".">>, <<"0", "5">>),
      Decimal(<<>>, <<"0">>, <<".">>, <<"0", "5", "1">>),
      Decimal(<<"-">>, <<"0">>, <<".">>, <<"0", "5", "1">>),
      Decimal(<<>>, <<"0">>, <<".">>, <<"0", "4", "9">>),
      Decimal(<<>>, <<>>, <<".">>, <<"5">>),
      Decimal(<<>>, <<"5">>, <<".">>, <<>>),
      Decimal(<<"-">>, <<"3">>, <<".">>, <<"2", "5">>),
      Decimal(<<"+">>, <<"0">>, <<".">>, <<"7">>) }

\* 1.2.3, .. and 0.7.1
MalformedOperands ==
    { Malformed(<<"1", ".", "2", ".", "3">>),
      Malformed(<<".", ".">>),
      Malformed(<<"0", ".", "7", ".", "1">>) }

Operands == Numbers \cup MalformedOperands

\* The operands the other of b and c has when one of them ranges over Operands.
FewOperands ==
    { Decimal(<<>>, <<"0">>, <<>>, <<>>),
      Decimal(<<"-">>, <<"0">>, <<".">>, <<"0", "5">>),
      Decimal(<<"-">>, <<"3">>, <<".">>, <<"2", "5">>) }

\* The operands one of a, d, e and f has.
OuterOperands ==
    { Decimal(<<>>, <<"1">>, <<>>, <<>>),
      Decimal(<<"-">>, <<"3">>, <<".">>, <<"2", "5">>),
      Malformed(<<".", ".">>) }

\* 1 0 0 1 0 0 with b and c in place of the second and third operand and o in
\* place of operand p.
MatrixOps(b, c, p, o) ==
    [k \in 1..6 |->
        CASE k = 2 -> b
          [] k = 3 -> c
          [] k = p -> o
          [] k = 4 -> Decimal(<<>>, <<"1">>, <<>>, <<>>)
          [] OTHER -> IF k = 1 THEN Decimal(<<>>, <<"1">>, <<>>, <<>>)
                      ELSE Decimal(<<>>, <<"0">>, <<>>, <<>>)]

MatrixKinds == {"Tm", "cmText", "cmImage"}

Matrices ==
    { [kind |-> kind, ops |-> MatrixOps(bc[1], bc[2], p, o)] :
        kind \in MatrixKinds,
        bc \in (Operands \X FewOperands) \cup (FewOperands \X Operands),
        p \in {1, 4, 5, 6},
        o \in OuterOperands }

\* a b c d e f
OperandsText(ops) == Join([k \in 1..6 |-> ops[k].text])

\* BT a b c d e f Tm (Hello) Tj ET
\* q a b c d e f cm BT /F1 40 Tf (Hello) Tj ET Q
\* q a b c d e f cm /Im1 Do Q
MatrixText(m) ==
    CASE m.kind = "Tm" ->
            Join(<<L_BT, OperandsText(m.ops), L_Tm, S_Hello, L_Tj, L_ET>>)
      [] m.kind = "cmText" ->
            Join(<<L_q, OperandsText(m.ops), L_cm, L_BT, Nm_F1, N_40, L_Tf, S_Hello,
                   L_Tj, L_ET, L_Q>>)
      [] m.kind = "cmImage" ->
            Join(<<L_q, OperandsText(m.ops), L_cm, Nm_Im1, L_Do, L_Q>>)

InitMatrix ==
    /\ matrix \in Matrices
    /\ stream = MatrixText(matrix)
    /\ cleanedStr = <<>>
    /\ recleanedStr = <<>>
    /\ passes = 0
    /\ IdleDoc

SpecMatrix == InitMatrix /\ [][NextClean]_vars

(***************************************************************************)
(* removeWatermarks.                                                       *)
(***************************************************************************)
\* page.node.Contents() and the lookups that follow it: the content streams.
contentStreams(page) ==
    IF page.contents.form = "absent" THEN <<>> ELSE page.contents.streams

\* A variant of the step below that goes on with the next page whatever
\* streams the page has left; C29 tells the two apart.
AfterStream_NextPage(p, k) ==
    IF p < Len(pages)
    THEN [pc |-> "page", pageIndex |-> p + 1, streamIndex |-> 0, failure |-> "none"]
    ELSE [pc |-> "save", pageIndex |-> p, streamIndex |-> 0, failure |-> "none"]

\* Where the loops stand once iteration k of the streams of page p is over:
\* the next stream, else the next page, else the save.
AfterStream(p, k) ==
    IF k < Len(contentStreams(pages[p]))
    THEN [pc |-> "stream", pageIndex |-> p, streamIndex |-> k + 1, failure |-> "none"]
    ELSE IF p < Len(pages)
    THEN [pc |-> "page", pageIndex |-> p + 1, streamIndex |-> 0, failure |-> "none"]
    ELSE [pc |-> "save", pageIndex |-> p, streamIndex |-> 0, failure |-> "none"]

\* A variant of the catch below that leaves the loop over the page's streams;
\* C6 tells the two apart.
Caught_Break(p, k) ==
    IF p < Len(pages)
    THEN [pc |-> "page", pageIndex |-> p + 1, streamIndex |-> 0, failure |-> "none"]
    ELSE [pc |-> "save", pageIndex |-> p, streamIndex |-> 0, failure |-> "none"]

\* A variant of the catch below that throws again; C7 tells the two apart.
Caught_Rethrow(p, k) ==
    [pc |-> "rejected", pageIndex |-> p, streamIndex |-> k, failure |-> "stream"]

\* catch (e) { console.warn(...); continue; } and the outer catch: the
\* iteration is over.
Caught(p, k) == AfterStream(p, k)

InitCall(fs) ==
    /\ file \in fs
    /\ pc = "read"
    /\ catalog = <<>>
    /\ pages = <<>>
    /\ xObjectUsage = <<>>
    /\ idsToRemove = {}
    /\ pageIndex = 0
    /\ streamIndex = 0
    /\ failure = "none"
    /\ warned = {}
    /\ visited = <<>>
    /\ output = NoBlob
    /\ peer = NoCall
    /\ IdleClean

\* const arrayBuffer = await file.arrayBuffer()
ReadFile ==
    /\ pc = "read"
    /\ file.kind # "unreadable"
    /\ pc' = "load"
    /\ UNCHANGED <<file, catalog, pages, xObjectUsage, idsToRemove, pageIndex,
                   streamIndex, failure, warned, visited, output>>
    /\ UNCHANGED cleanVars
    /\ UNCHANGED peer

\* file.arrayBuffer() rejects.
ReadFails ==
    /\ pc = "read"
    /\ file.kind = "unreadable"
    /\ pc' = "rejected"
    /\ failure' = "read"
    /\ UNCHANGED <<file, catalog, pages, xObjectUsage, idsToRemove, pageIndex,
                   streamIndex, warned, visited, output>>
    /\ UNCHANGED cleanVars
    /\ UNCHANGED peer

\* const pdfDoc = await PDFDocument.load(arrayBuffer, ...)
LoadDocument ==
    /\ pc = "load"
    /\ file.kind = "pdf"
    /\ catalog' = file.doc.catalog
    /\ pages' = file.doc.pages
    /\ pc' = "cleanup"
    /\ UNCHANGED <<file, xObjectUsage, idsToRemove, pageIndex, streamIndex,
                   failure, warned, visited, output>>
    /\ UNCHANGED cleanVars
    /\ UNCHANGED peer

\* PDFDocument.load rejects: the bytes are no PDF.
LoadFails ==
    /\ pc = "load"
    /\ file.kind # "pdf"
    /\ pc' = "rejected"
    /\ failure' = "load"
    /\ UNCHANGED <<file, catalog, pages, xObjectUsage, idsToRemove, pageIndex,
                   streamIndex, warned, visited, output>>
    /\ UNCHANGED cleanVars
    /\ UNCHANGED peer

\* Steps 1 and 2: the catalog entries, the usage map, the shared references.
GlobalCleanup ==
    /\ pc = "cleanup"
    /\ catalog' = DictDeleteAll(catalog, CatalogCleanupKeys)
    /\ xObjectUsage' = UsageSeenBy(pages, peer.pages)
    /\ idsToRemove' = SharedIds(UsageSeenBy(pages, peer.pages), Len(pages))
    /\ pc' = IF Len(pages) = 0 THEN "save" ELSE "page"
    /\ pageIndex' = IF Len(pages) = 0 THEN 0 ELSE 1
    /\ UNCHANGED <<file, pages, streamIndex, failure, warned, visited, output>>
    /\ UNCHANGED cleanVars
    /\ UNCHANGED peer

\* Step 3 of the loop body, and the collection of the page's content streams.
CleanPage ==
    /\ pc = "page"
    /\ pages' = [pages EXCEPT ![pageIndex] = CleanedPage(@, idsToRemove)]
    /\ LET next == AfterStream(pageIndex, 0)
       IN  /\ pc' = next.pc
           /\ pageIndex' = next.pageIndex
           /\ streamIndex' = next.streamIndex
    /\ UNCHANGED <<file, catalog, xObjectUsage, idsToRemove, failure, warned, visited, output>>
    /\ UNCHANGED cleanVars
    /\ UNCHANGED peer

\* One iteration of the loop over contentStreams.
ProcessStream ==
    /\ pc = "stream"
    /\ LET st   == contentStreams(pages[pageIndex])[streamIndex]
           fail == DecompressionFails(st)
           next == IF fail THEN Caught(pageIndex, streamIndex)
                   ELSE AfterStream(pageIndex, streamIndex)
       IN  /\ pages' = IF fail THEN pages
                       ELSE [pages EXCEPT
                               ![pageIndex].contents.streams[streamIndex] = CleanStream(st)]
           /\ warned' = IF fail THEN warned \cup {<<pageIndex, streamIndex>>} ELSE warned
           /\ visited' = Append(visited, <<pageIndex, streamIndex>>)
           /\ pc' = next.pc
           /\ pageIndex' = next.pageIndex
           /\ streamIndex' = next.streamIndex
           /\ failure' = next.failure
    /\ UNCHANGED <<file, catalog, xObjectUsage, idsToRemove, output>>
    /\ UNCHANGED cleanVars
    /\ UNCHANGED peer

\* const pdfBytes = await pdfDoc.save(); return new Blob(...)
SaveDocument ==
    /\ pc = "save"
    /\ pc' = "resolved"
    /\ output' = [type |-> "Blob", catalog |-> catalog, pages |-> pages]
    /\ UNCHANGED <<file, catalog, pages, xObjectUsage, idsToRemove, pageIndex,
                   streamIndex, failure, warned, visited>>
    /\ UNCHANGED cleanVars
    /\ UNCHANGED peer

\* pdfDoc.save() rejects.
SaveFails ==
    /\ pc = "save"
    /\ pc' = "rejected"
    /\ failure' = "save"
    /\ UNCHANGED <<file, catalog, pages, xObjectUsage, idsToRemove, pageIndex,
                   streamIndex, warned, visited, output>>
    /\ UNCHANGED cleanVars
    /\ UNCHANGED peer

removeWatermarks ==
    \/ ReadFile
    \/ ReadFails
    \/ LoadDocument
    \/ LoadFails
    \/ GlobalCleanup
    \/ CleanPage
    \/ ProcessStream
    \/ SaveDocument
    \/ SaveFails

(***************************************************************************)
(* A second call in flight.  JavaScript runs a call without interruption   *)
(* from one await to the next, so the second call moves in three steps:    *)
(* the read, the load with all that follows it up to the save, the save.   *)
(* (The steps of the first call are finer than that: the second call may   *)
(* move between any two of them.)                                          *)
(***************************************************************************)
\* One iteration of the loop over contentStreams: the stream as it leaves it.
ProcessedStream(st) == IF DecompressionFails(st) THEN st ELSE CleanStream(st)

\* The page cp, already cleaned at page level, after the loop over its
\* content streams.
WithProcessedStreams(cp) ==
    [cp EXCEPT !.contents.streams = [k \in 1..Len(@) |-> ProcessedStream(@[k])]]

\* One iteration of the loop over the pages.
ProcessedPage(page, ids) == WithProcessedStreams(CleanedPage(page, ids))

\* pdfDoc from the load to the save, usage being the usage map.
ProcessedDocument(doc, usage) ==
    [catalog |-> DictDeleteAll(doc.catalog, CatalogCleanupKeys),
     pages |-> [p \in 1..Len(doc.pages) |->
                  ProcessedPage(doc.pages[p], SharedIds(usage, Len(doc.pages)))]]

\* const arrayBuffer = await file.arrayBuffer()
PeerRead ==
    /\ peer.pc = "read"
    /\ peer.file.kind # "unreadable"
    /\ peer' = [peer EXCEPT !.pc = "load"]
    /\ UNCHANGED <<file, pc, catalog, pages, xObjectUsage, idsToRemove, pageIndex,
                   streamIndex, failure, warned, visited, output>>
    /\ UNCHANGED cleanVars

\* file.arrayBuffer() rejects.
PeerReadFails ==
    /\ peer.pc = "read"
    /\ peer.file.kind = "unreadable"
    /\ peer' = [peer EXCEPT !.pc = "rejected", !.failure = "read"]
    /\ UNCHANGED <<file, pc, catalog, pages, xObjectUsage, idsToRemove, pageIndex,
                   streamIndex, failure, warned, visited, output>>
    /\ UNCHANGED cleanVars

\* The load resolves, and the call runs up to await pdfDoc.save().
PeerLoad ==
    /\ peer.pc = "load"
    /\ peer.file.kind = "pdf"
    /\ LET done == ProcessedDocument(peer.file.doc,
                                     UsageSeenBy(peer.file.doc.pages, pages))
       IN  peer' = [peer EXCEPT !.pc = "save",
                                !.catalog = done.catalog,
                                !.pages = done.pages]
    /\ UNCHANGED <<file, pc, catalog, pages, xObjectUsage, idsToRemove, pageIndex,
                   streamIndex, failure, warned, visited, output>>
    /\ UNCHANGED cleanVars

\* PDFDocument.load rejects.
PeerLoadFails ==
    /\ peer.pc = "load"
    /\ peer.file.kind # "pdf"
    /\ peer' = [peer EXCEPT !.pc = "rejected", !.failure = "load"]
    /\ UNCHANGED <<file, pc, catalog, pages, xObjectUsage, idsToRemove, pageIndex,
                   streamIndex, failure, warned, visited, output>>
    /\ UNCHANGED cleanVars

\* const pdfBytes = await pdfDoc.save(); return new Blob(...)
PeerSave ==
    /\ peer.pc = "save"
    /\ peer' = [peer EXCEPT
                  !.pc = "resolved",
                  !.output = [type |-> "Blob", catalog |-> peer.catalog,
                              pages |-> peer.pages]]
    /\ UNCHANGED <<file, pc, catalog, pages, xObjectUsage, idsToRemove, pageIndex,
                   streamIndex, failure, warned, visited, output>>
    /\ UNCHANGED cleanVars

\* pdfDoc.save() rejects.
PeerSaveFails ==
    /\ peer.pc = "save"
    /\ peer' = [peer EXCEPT !.pc = "rejected", !.failure = "save"]
    /\ UNCHANGED <<file, pc, catalog, pages, xObjectUsage, idsToRemove, pageIndex,
                   streamIndex, failure, warned, visited, output>>
    /\ UNCHANGED cleanVars

\* The pages the documents of the first call of SpecPair are made of.
PairPages == <<SharedPages[1], SharedPages[2]>>

\* The pages the documents of its second call are made of: the image that the
\* pages of the first call place is placed by pages of the second too.
PeerPages == <<SharedPages[4], SharedPages[2]>>

\* The most pages of a document of SpecPair.
MaxPairPages == 3

\* Two calls, each on a file of its own.
InitPair ==
    /\ file \in Files(PairPages, MaxPairPages)
    /\ pc = "read"
    /\ catalog = <<>>
    /\ pages = <<>>
    /\ xObjectUsage = <<>>
    /\ idsToRemove = {}
    /\ pageIndex = 0
    /\ streamIndex = 0
    /\ failure = "none"
    /\ warned = {}
    /\ visited = <<>>
    /\ output = NoBlob
    /\ peer \in { [NoCall EXCEPT !.file = f, !.pc = "read"] :
                    f \in Files(PeerPages, MaxPairPages) }
    /\ IdleClean

TwoCalls ==
    \/ removeWatermarks
    \/ PeerRead
    \/ PeerReadFails
    \/ PeerLoad
    \/ PeerLoadFails
    \/ PeerSave
    \/ PeerSaveFails

SpecPair == InitPair /\ [][TwoCalls]_vars

\* One call, on a document whose content streams vary.
SpecDoc == InitCall(Files(StreamPages, MaxStreamPages)) /\ [][removeWatermarks]_vars

\* Where the call stands: the await or loop it is at, and the loop indices.
Position == <<pc, pageIndex, streamIndex>>

\* The promise the call returned has settled.
Settled == pc \in {"resolved", "rejected"}

\* The call moves on: it is not settled, and it leaves the position it is at.
\* (Every step of removeWatermarks is such a step, and until the call is
\* settled one is possible; C29 checks both.)
Advance ==
    /\ ~Settled
    /\ \E q \in {"read", "load", "cleanup", "page", "stream", "save", "resolved", "rejected"} :
          \E i \in 0..Len(file.doc.pages) :
              \E k \in 0..Len(Flatten([p \in 1..Len(file.doc.pages) |->
                                         contentStreams(file.doc.pages[p])],
                                      1, Len(file.doc.pages))) :
                  /\ <<q, i, k>> # Position
                  /\ pc' = q
                  /\ pageIndex' = i
                  /\ streamIndex' = k

\* One call that goes on: the loops are synchronous code, which JavaScript
\* runs to its end, and the promises of the read, the load and the save
\* settle, so the call does not stay for ever at a position it can leave.
SpecSequential ==
    /\ InitCall(Files(StreamPages, MaxStreamPages))
    /\ [][removeWatermarks]_vars
    /\ WF_Position(Advance)

\* One call, on a document whose streams have other filters or share their
\* operators.
SpecSplit == InitCall(Files(SplitPages, MaxStreamPages)) /\ [][removeWatermarks]_vars

\* One call, on a document whose content streams hold image data.
SpecBinary == InitCall(Files(BinaryPages, MaxStreamPages)) /\ [][removeWatermarks]_vars

\* One call, on a document whose pages place the images they name.
SpecPlaced == InitCall(Files(PlacedPages, MaxPlacedPages)) /\ [][removeWatermarks]_vars

\* One call, on a document whose XObject resources vary.
SpecShared == InitCall(Files(SharedPages, MaxSharedPages)) /\ [][removeWatermarks]_vars

(***************************************************************************)
(* Properties of cleanContentStream, under SpecClean.                      *)
(***************************************************************************)
\* The positions of s where lit stands.
Occurrences(s, lit) == { i \in 1..Len(s) : LitAt(s, i, lit) }

\* The number of positions of s, up to n, that hold the character ch.
Count(s, n, ch) == Cardinality({ j \in 1..n : s[j] = ch })

\* Every group opened by q before position i of s is closed by Q before i,
\* and no Q before i closes a group that was not opened: what stands at i is
\* within no graphics-state group.
OutsideGroups(s, i) ==
    /\ Count(s, i - 1, "q") = Count(s, i - 1, "Q")
    /\ \A n \in 1..(i - 1) : Count(s, n, "q") >= Count(s, n, "Q")

\* What stands at position i of s is within no marked-content block: every
\* BMC or BDC before i has its EMC before i.
OutsideMarkedContent(s, i) ==
    Cardinality({ j \in Occurrences(s, L_BMC) \cup Occurrences(s, L_BDC) : j < i })
        = Cardinality({ j \in Occurrences(s, L_EMC) : j < i })

\* C1: an axis-aligned text block (PlainBlock: its only matrix is 1 0 0 1 7 7,
\* its string is no watermark string) that stands in a stream of well-nested
\* groups, outside every marked-content block and outside every
\* graphics-state group, is still in the text cleanContentStream returns,
\* whatever stands before or after it.
C1_ConservativeDeletion ==
    passes >= 1 =>
        ((/\ OutsideGroups(stream, Len(stream) + 1)
          /\ \E i \in Occurrences(stream, PlainBlock) :
                OutsideGroups(stream, i) /\ OutsideMarkedContent(stream, i))
            => Occurrences(cleanedStr, PlainBlock) # {})

\* C2: cleanContentStream(cleanContentStream(s)) = cleanContentStream(s) for
\* every stream text s.
C2_Idempotent == passes = 2 => recleanedStr = cleanedStr

\* C3: a rotated group q <matrix> cm ... BT ... ET ... Q (RotatedTextGroup:
\* b = 0.7, c = -0.7) is removed wherever it stands in the stream; when it is
\* the whole stream the output is the empty text.
C3_RotatedTextRemoved ==
    passes >= 1 =>
        /\ stream = RotatedTextGroup => cleanedStr = <<>>
        /\ Occurrences(stream, RotatedTextGroup) # {}
              => Occurrences(cleanedStr, RotatedTextGroup) = {}

(***************************************************************************)
(* Properties of removeWatermarks, under SpecDoc and SpecShared.           *)
(***************************************************************************)
\* The document has been loaded: pages holds its pages.
Loaded == pc \notin {"read", "load"} /\ failure \notin {"read", "load"}

\* The places (page, stream) of the content streams of the loaded document.
StreamPlaces ==
    UNION { {p} \X (1..Len(contentStreams(pages[p]))) : p \in 1..Len(pages) }

\* The content stream at the place e as it was on input, and as it is now.
OriginalStream(e) == contentStreams(file.doc.pages[e[1]])[e[2]]
CurrentStream(e) == contentStreams(pages[e[1]])[e[2]]

\* The iteration of the loop over the stream at the place e is over.
Processed(e) ==
    \/ pc \in {"save", "resolved"}
    \/ pc = "rejected" /\ failure = "save"
    \/ pc \in {"page", "stream"} /\ e[1] < pageIndex
    \/ pc = "stream" /\ e[1] = pageIndex /\ e[2] < streamIndex

\* The payload of the stream st is what its Filter entry says it is.
WellEncoded(st) == IsFlate(st.Filter) => ~InflateThrows(st.contents)

\* C4: a content stream whose decoded text the five rules leave as it is
\* (in particular one that no rule matches) has the payload, the Filter and
\* the Length it had on input, at every point of the run, compressed or not.
C4_UntouchedStreamsIdentical ==
    Loaded =>
        \A e \in StreamPlaces :
            (/\ WellEncoded(OriginalStream(e))
             /\ cleanContentStream(ContentStr(OriginalStream(e)))
                    = ContentStr(OriginalStream(e)))
                => CurrentStream(e) = OriginalStream(e)

\* C4 witness: the call has resolved, and a compressed stream whose text no
\* rule changes (written at a level that is not pako's) is as it was.
C4_Witness ==
    /\ pc = "resolved"
    /\ \E e \in StreamPlaces :
          /\ OriginalStream(e) = PackedBody
          /\ CurrentStream(e) = PackedBody
          /\ Processed(e)

\* C5: every content stream's Length is the byte count of its payload, a
\* stream whose Filter described its payload on input has a Filter that
\* describes its payload, and a stream that was rewritten has Filter
\* FlateDecode and a payload that inflates to the cleaned text.
C5_StreamMetadata ==
    Loaded =>
        \A e \in StreamPlaces :
            /\ CurrentStream(e).Length = Len(CurrentStream(e).contents)
            /\ WellEncoded(OriginalStream(e)) => WellEncoded(CurrentStream(e))
            /\ CurrentStream(e) # OriginalStream(e) =>
                  /\ CurrentStream(e).Filter = "FlateDecode"
                  /\ ~InflateThrows(CurrentStream(e).contents)
                  /\ TextDecode(Inflate(CurrentStream(e).contents))
                        = cleanContentStream(ContentStr(OriginalStream(e)))

\* C5 witness: a stream that had no Filter on input has been rewritten.
C5_Witness ==
    /\ pc = "resolved"
    /\ \E e \in StreamPlaces :
          /\ OriginalStream(e).Filter = "None"
          /\ CurrentStream(e).Filter = "FlateDecode"
          /\ CurrentStream(e).contents # OriginalStream(e).contents

\* C6: once the loop has passed a stream, a stream that does not inflate is
\* as it was on input, and every other stream holds the cleaned text of its
\* input, whatever streams failed before it on the same page or on earlier
\* pages; it stays so to the end of the run.
C6_FailureIsolation ==
    Loaded =>
        \A e \in StreamPlaces :
            Processed(e) =>
                IF DecompressionFails(OriginalStream(e))
                THEN CurrentStream(e) = OriginalStream(e)
                ELSE ContentStr(CurrentStream(e))
                        = cleanContentStream(ContentStr(OriginalStream(e)))

\* C6 witness: the first stream of a page did not inflate and is as it was,
\* and the stream after it on the same page has been rewritten.
C6_Witness ==
    /\ pc = "resolved"
    /\ \E p \in 1..Len(pages) :
          /\ <<p, 1>> \in warned
          /\ Len(contentStreams(pages[p])) = 2
          /\ CurrentStream(<<p, 1>>) = CorruptStamped
          /\ OriginalStream(<<p, 2>>) = RawStamped
          /\ CurrentStream(<<p, 2>>) # RawStamped
          /\ Occurrences(ContentStr(CurrentStream(<<p, 2>>)), RotatedImageGroup) = {}
          /\ Occurrences(ContentStr(CurrentStream(<<p, 2>>)), PlainBlock) # {}

\* C7: the call is rejected exactly when reading or loading the input or
\* saving the document failed, a rejected call gives no Blob, and a failure
\* of a content stream never rejects the call.
C7_FatalVersusLocal ==
    /\ pc = "rejected" <=> failure # "none"
    /\ failure \in {"none", "read", "load", "save"}
    /\ pc = "rejected" => output.type = "none"
    /\ output.type = "Blob" => pc = "resolved"

\* C7 witness: the call resolved with a Blob although a stream failed.
C7_Witness == pc = "resolved" /\ warned # {} /\ output.type = "Blob"

\* The size entries of a page dictionary.
SizeKeys == {"MediaBox", "CropBox", "Rotate"}

\* The pages ps are the pages of the input, in order, each with the size
\* entries it had.
SamePagesAndSizes(ps) ==
    /\ Len(ps) = Len(file.doc.pages)
    /\ \A p \in 1..Len(ps) : \A k \in SizeKeys :
          /\ k \in DOMAIN ps[p].dict
          /\ ps[p].dict[k] = file.doc.pages[p].dict[k]
    /\ \A p \in 1..Len(ps) :
          Len(contentStreams(ps[p])) = Len(contentStreams(file.doc.pages[p]))

PageRefs(page) ==
    { page.resources.xobject.dict[k] : k \in DOMAIN page.resources.xobject.dict }

\* All the objects the pages ps name.
AllRefs(ps) == UNION { PageRefs(ps[p]) : p \in 1..Len(ps) }

\* The number of pages of ps that name the object ref.
PagesNaming(ps, ref) == Cardinality({ p \in 1..Len(ps) : ref \in PageRefs(ps[p]) })

\* C9: in a document of more than 2 pages, an XObject that at least 80% of
\* the pages name is named by no page of the output.
C9_SharedXObjectsStripped ==
    (pc = "resolved" /\ Len(file.doc.pages) > 2) =>
        \A ref \in AllRefs(file.doc.pages) :
            10 * PagesNaming(file.doc.pages, ref) >= 8 * Len(file.doc.pages)
                => ref \notin AllRefs(output.pages)

OccurrencesI(s, lit) == { i \in 1..Len(s) : LitAtI(s, i, lit) }

\* Some watermark string stands in s, in some letter case.
HoldsBadString(s) == \E k \in 1..Len(badStrings) : OccurrencesI(s, badStrings[k]) # {}

\* C11: every show operator whose string holds a watermark string, in any
\* letter case, is deleted with its operand (the watermark strings of the
\* stream stand in such operands only, so none is left in the output), and
\* rule 5 leaves a stream that holds no watermark string as it is.
C11_DenylistRemoval ==
    /\ passes >= 1 => ~HoldsBadString(cleanedStr)
    /\ ~HoldsBadString(stream) => RemoveBadStrings(stream, 1) = stream

\* C12: an /Artifact block is deleted through its own EMC also when a
\* marked-content block is nested in it: every marked-content block of the
\* stream is an artifact block or nested in one, so the output holds no EMC
\* and none of the block's text (Page).
C12_NestedMarkedContent ==
    passes >= 1 =>
        /\ Occurrences(cleanedStr, L_EMC) = {}
        /\ Occurrences(cleanedStr, S_Page) = {}

\* No Q of s closes the group that the first q of s opens: at every position
\* more groups have been opened than closed.
FirstGroupUnclosed(s) ==
    \A n \in 1..Len(s) : Count(s, n, "q") > Count(s, n, "Q")

\* C13: a group q <matrix> cm at the start of the stream that no Q closes
\* (every Q after it closes a group opened after it) is not deleted: the
\* output starts with its head.
C13_UnterminatedUntouched ==
    passes >= 1 =>
        ((LitAt(stream, 1, RotatedHead) /\ FirstGroupUnclosed(stream))
            => LitAt(cleanedStr, 1, RotatedHead))

\* ) Tj ET with no string before the parenthesis: what is left of a text
\* block of which the start was deleted.
OrphanShowTail(s) ==
    { i \in Occurrences(s, <<")", " ", "T", "j", " ", "E", "T">>) :
        i = 1 \/ s[i - 1] = " " }

\* C20: a text block with a rotated Tm is deleted from its BT through its own
\* ET whatever its strings hold: the output holds no rotated Tm and no end of
\* a block of which the start was deleted.
C20_RotatedBlocksDeletedWhole ==
    passes >= 1 =>
        /\ Occurrences(cleanedStr, RotatedTm) = {}
        /\ OrphanShowTail(cleanedStr) = {}

(***************************************************************************)
(* Properties of the page-level and catalog cleanup.                       *)
(***************************************************************************)
\* C14: in the output no page has an Annots, StructParents or PieceInfo
\* entry and no page's Resources has a Properties entry, however the page
\* holds its Resources.
C14_PageLevelStripping ==
    pc = "resolved" =>
        \A p \in 1..Len(output.pages) :
            /\ DOMAIN output.pages[p].dict \cap {"Annots", "StructParents", "PieceInfo"} = {}
            /\ "Properties" \notin DOMAIN output.pages[p].resources.dict

\* The catalog c has none of OCProperties, Perms and AcroForm, and every
\* other entry the catalog of the input has, unchanged.
CatalogStripped(c) ==
    /\ DOMAIN c \cap {"OCProperties", "Perms", "AcroForm"} = {}
    /\ \A k \in DOMAIN file.doc.catalog \ {"OCProperties", "Perms", "AcroForm"} :
          k \in DOMAIN c /\ c[k] = file.doc.catalog[k]

\* C15: from the global cleanup on, and in the output, the catalog has no
\* OCProperties, Perms or AcroForm entry and every other entry it had, for
\* documents of any number of pages, none included.
C15_CatalogStripping ==
    /\ (Loaded /\ pc # "cleanup") => CatalogStripped(catalog)
    /\ output.type = "Blob" => CatalogStripped(output.catalog)

\* C15 witness: the call has resolved for a document of no page whose
\* catalog had the three entries.
C15_Witness ==
    /\ pc = "resolved"
    /\ Len(output.pages) = 0
    /\ {"OCProperties", "Perms", "AcroForm"} \subseteq DOMAIN file.doc.catalog
    /\ DOMAIN output.catalog = {"Type", "Pages"}

\* C16: in the output no XObject dictionary that the code reaches (a direct
\* dictionary in direct Resources) names an XObject of subtype Form,
\* whatever the number of pages.
C16_FormXObjectsRemoved ==
    pc = "resolved" =>
        \A p \in 1..Len(output.pages) :
            \A k \in DOMAIN ReachableXObjects(output.pages[p]) :
                Lookup(ReachableXObjects(output.pages[p])[k]).Subtype # "Form"

(***************************************************************************)
(* Properties of the stream loop, under SpecSplit.                         *)
(***************************************************************************)
\* C17: a content stream whose Filter is neither absent nor the name
\* FlateDecode (another filter name, or an array of filters) has the
\* payload, the Filter and the Length it had on input, at every point of the
\* run.
C17_UnexpectedFilterUntouched ==
    Loaded =>
        \A e \in StreamPlaces :
            OriginalStream(e).Filter \notin {"None", "FlateDecode"}
                => CurrentStream(e) = OriginalStream(e)

\* The decoded texts of the content streams of a page, one after the other.
PageText(page) ==
    Flatten([k \in 1..Len(contentStreams(page)) |-> ContentStr(contentStreams(page)[k])],
            1, Len(contentStreams(page)))

\* Every content stream of the page is not compressed or is a zlib stream
\* under the name FlateDecode.
PlainlyEncoded(page) ==
    \A k \in 1..Len(contentStreams(page)) :
        /\ contentStreams(page)[k].Filter \in {"None", "FlateDecode"}
        /\ WellEncoded(contentStreams(page)[k])

\* C18: for a page whose Contents is an array of streams, the texts of the
\* streams of the output, one after the other, are cleanContentStream of the
\* texts of the streams of the input, one after the other.
C18_StreamsCleanedAsOne ==
    pc = "resolved" =>
        \A p \in 1..Len(output.pages) :
            (file.doc.pages[p].contents.form = "array" /\ PlainlyEncoded(file.doc.pages[p]))
                => PageText(output.pages[p]) = cleanContentStream(PageText(file.doc.pages[p]))

(***************************************************************************)
(* Properties of two calls in flight, under SpecPair.                      *)
(***************************************************************************)
\* What a call on the document doc gives when it runs alone.
AloneOutput(doc) == ProcessedDocument(doc, UsageOf(doc.pages))

\* The Blob b holds the document d.
Holds(b, d) == b.type = "Blob" /\ [catalog |-> b.catalog, pages |-> b.pages] = d

\* C19: however the steps of two calls interleave, a call that resolves gives
\* the output the call gives on its file alone, and a call is rejected only
\* for a failure of its own read, load or save.
C19_CallsIndependent ==
    /\ pc = "resolved" => Holds(output, AloneOutput(file.doc))
    /\ peer.pc = "resolved" => Holds(peer.output, AloneOutput(peer.file.doc))
    /\ failure \in {"read", "load"} => file.kind # "pdf"
    /\ peer.failure \in {"read", "load"} => peer.file.kind # "pdf"

\* C19 witness: both calls have resolved, on different documents: the first
\* had the image removed as shared, the second, of as many pages, kept it.
C19_Witness ==
    /\ pc = "resolved"
    /\ peer.pc = "resolved"
    /\ Len(output.pages) = 3
    /\ Len(peer.output.pages) = 3
    /\ "7 0 R" \in AllRefs(file.doc.pages)
    /\ "7 0 R" \notin AllRefs(output.pages)
    /\ "7 0 R" \in AllRefs(peer.output.pages)

(***************************************************************************)
(* Properties of the rotation test, under SpecMatrix.                      *)
(***************************************************************************)
\* Every operand of the matrix m is a number of the PDF syntax.
WellFormed(m) == \A k \in 1..6 : m.ops[k].wf

\* |b| > 0.05 or |c| > 0.05, in thousandths.
Dirty(m) == m.ops[2].milli > 50 \/ m.ops[3].milli > 50

\* C21: a matrix of six numbers is classified dirty, and its region deleted,
\* exactly when |b| > 0.05 or |c| > 0.05 (strictly), whatever the signs of b
\* and c and whatever a, d, e and f are, for Tm and for cm alike.
C21_ClassifierThreshold ==
    (passes >= 1 /\ WellFormed(matrix)) =>
        ((cleanedStr = <<>>) <=> Dirty(matrix))

\* C22: a matrix with an operand that is no well-formed number is never
\* classified dirty: its region is left as it is.
C22_MalformedNeverDirty ==
    (passes >= 1 /\ matrix.kind # "none" /\ ~WellFormed(matrix)) =>
        cleanedStr = stream

(***************************************************************************)
(* Properties of the XObject resources, under SpecPlaced.                  *)
(***************************************************************************)
\* The page after keeps every name the page before has for the object ref.
KeepsNames(before, after, ref) ==
    \A k \in DOMAIN before.resources.xobject.dict :
        before.resources.xobject.dict[k] = ref
            => /\ k \in DOMAIN after.resources.xobject.dict
               /\ after.resources.xobject.dict[k] = ref

\* C23: in a document of more than 2 pages, an XObject that is no Form and
\* that fewer than 80% of the pages name keeps every name it has on every
\* page, however many names of one page refer to it.
C23_SharingCountsPages ==
    (pc = "resolved" /\ Len(file.doc.pages) > 2) =>
        \A ref \in AllRefs(file.doc.pages) :
            (Lookup(ref).Subtype # "Form"
                /\ 10 * PagesNaming(file.doc.pages, ref) < 8 * Len(file.doc.pages))
                => \A p \in 1..Len(output.pages) :
                       KeepsNames(file.doc.pages[p], output.pages[p], ref)

\* The names of XObjects the model's texts invoke, with the operator text.
Invocations ==
    [k \in {"Im1", "Im2"} |->
        IF k = "Im1" THEN Join(<<Nm_Im1, L_Do>>) ELSE Join(<<Nm_Im2, L_Do>>)]

\* Every XObject that the content streams of the page invoke is in the XObject
\* dictionary of the page.
NoDanglingDo(page) ==
    \A k \in DOMAIN Invocations :
        Occurrences(PageText(page), Invocations[k]) # {}
            => k \in DOMAIN page.resources.xobject.dict

\* C28: in the output, every Do operator left in the content streams of a
\* page names an XObject that the XObject dictionary of the page still holds,
\* when that was so in the input.
C28_NoDanglingInvocation ==
    pc = "resolved" =>
        \A p \in 1..Len(output.pages) :
            NoDanglingDo(file.doc.pages[p]) => NoDanglingDo(output.pages[p])

(***************************************************************************)
(* Operator balance of a stream text.                                      *)
(***************************************************************************)
\* The operators that open and close a region, with the stack symbol of each.
Brackets ==
    << [text |-> L_q, open |-> TRUE, sym |-> "q"],
       [text |-> L_Q, open |-> FALSE, sym |-> "q"],
       [text |-> L_BT, open |-> TRUE, sym |-> "BT"],
       [text |-> L_ET, open |-> FALSE, sym |-> "BT"],
       [text |-> L_BMC, open |-> TRUE, sym |-> "MC"],
       [text |-> L_BDC, open |-> TRUE, sym |-> "MC"],
       [text |-> L_EMC, open |-> FALSE, sym |-> "MC"] >>

\* The text lit stands at position i of s as a whole token: white space or an
\* end of the text on both sides.
TokenAt(s, i, lit) ==
    /\ LitAt(s, i, lit)
    /\ i = 1 \/ s[i - 1] \in WhiteSpace
    /\ i + Len(lit) > Len(s) \/ s[i + Len(lit)] \in WhiteSpace

\* The bracket that stands at position i of s, 0 when there is none.
BracketAt(s, i) == Least({ k \in 1..Len(Brackets) : TokenAt(s, i, Brackets[k].text) })

\* The brackets of s from position i on nest properly and close the open
\* regions of stack, the innermost last.
RECURSIVE Nests(_, _, _)
Nests(s, i, stack) ==
    LET j == Least({ k \in i..Len(s) : BracketAt(s, k) # 0 })
    IN  IF i > Len(s) \/ j = NoMatch THEN stack = <<>>
        ELSE IF Brackets[BracketAt(s, j)].open
             THEN Nests(s, j + 1, Append(stack, Brackets[BracketAt(s, j)].sym))
        ELSE /\ Len(stack) > 0
             /\ stack[Len(stack)] = Brackets[BracketAt(s, j)].sym
             /\ Nests(s, j + 1, SubSeq(stack, 1, Len(stack) - 1))

\* Every q has its Q, every BT its ET, every BMC and BDC its EMC, properly
\* nested.
Balanced(s) == Nests(s, 1, <<>>)

(***************************************************************************)
(* Properties of rule 4, under SpecGroups.                                 *)
(***************************************************************************)
\* C24: of a well-formed text, every rotated XObject placement group is
\* deleted and every axis-aligned one is left in place, whatever groups stand
\* around it: the output holds no rotated placement and as many axis-aligned
\* placements as the input.
C24_RotatedPlacementsOnly ==
    (passes >= 1 /\ Balanced(stream)) =>
        /\ Occurrences(cleanedStr, RotatedImageGroup) = {}
        /\ Cardinality(Occurrences(cleanedStr, PlainImageGroup))
              = Cardinality(Occurrences(stream, PlainImageGroup))

(***************************************************************************)
(* Properties of cleanContentStream, under SpecRegions.                    *)
(***************************************************************************)
\* C27: the output of a text whose operators are balanced has its operators
\* balanced: no deletion leaves an orphan Q, ET or EMC or an unclosed q, BT,
\* BMC or BDC.
C27_BalancePreserved ==
    (passes >= 1 /\ Balanced(stream)) => Balanced(cleanedStr)

(***************************************************************************)
(* Properties of the rewrite of a stream, under SpecBinary.                *)
(***************************************************************************)
\* The decoded payload of a stream: its bytes under its filter.
Payload(st) == IF IsFlate(st.Filter) THEN Inflate(st.contents) ELSE st.contents

\* The bytes new are the bytes old with one run of bytes removed.
IsCutOf(new, old) ==
    \E i \in 1..(Len(old) + 1) :
        \E j \in i..(Len(old) + 1) :
            new = SubSeq(old, 1, i - 1) \o SubSeq(old, j, Len(old))

\* C25: the decoded payload of a rewritten stream is the decoded payload it
\* had with the matched region removed: every byte outside the region, bytes
\* that are no text included, is the same in the same order.
C25_RemainderPreserved ==
    Loaded =>
        \A e \in StreamPlaces :
            (CurrentStream(e) # OriginalStream(e) /\ WellEncoded(CurrentStream(e)))
                => IsCutOf(Payload(CurrentStream(e)), Payload(OriginalStream(e)))

(***************************************************************************)
(* Properties of the length test, under SpecClean.                         *)
(***************************************************************************)
\* The text out is no longer than the text in, and as long only when equal.
OnlyDeletes(in, out) ==
    /\ Len(out) <= Len(in)
    /\ Len(out) = Len(in) <=> out = in

\* C26: the cleaned text is never longer than the text, and is as long as the
\* text only when it is the text, so the length test of the stream loop is
\* true exactly when the text was changed; the same for a second run.
C26_LengthTestDetectsChange ==
    /\ passes >= 1 =>
          /\ OnlyDeletes(stream, cleanedStr)
          /\ Changed(stream, cleanedStr) <=> cleanedStr # stream
    /\ passes >= 2 =>
          /\ OnlyDeletes(cleanedStr, recleanedStr)
          /\ Changed(cleanedStr, recleanedStr) <=> recleanedStr # cleanedStr

\* C26 witness: the cleaner has changed a text that holds an artifact block, a
\* rotated group and a show operator with a watermark string, and the result
\* is shorter.
C26_Witness ==
    /\ passes >= 1
    /\ Occurrences(stream, ArtifactBlock) # {}
    /\ Occurrences(stream, RotatedImageGroup) # {}
    /\ Occurrences(stream, DeniedShow) # {}
    /\ cleanedStr # stream
    /\ Len(cleanedStr) < Len(stream)

(***************************************************************************)
(* Properties of the loops, under SpecSequential.                          *)
(***************************************************************************)
\* The (page, stream) places of the pages ps: the pages in document order,
\* the streams of a page in the order of its Contents.
PlacesInOrder(ps) ==
    Flatten([p \in 1..Len(ps) |->
                [k \in 1..Len(contentStreams(ps[p])) |-> <<p, k>>]],
            1, Len(ps))

\* The sequence a is the start of the sequence b.
IsPrefix(a, b) == Len(a) <= Len(b) /\ a = SubSeq(b, 1, Len(a))

\* The loops are over.
LoopsDone == pc \in {"save", "resolved"} \/ (pc = "rejected" /\ failure = "save")

\* The places visited so far are the first places of the document, in order
\* and each once; the stream of a visited place has been read, cleaned and
\* written (or skipped, when it does not decode), the others are as they were
\* on input; and when the loops are over every place has been visited.
VisitsInOrder ==
    /\ IsPrefix(visited, PlacesInOrder(file.doc.pages))
    /\ LoopsDone => visited = PlacesInOrder(file.doc.pages)
    /\ \A e \in StreamPlaces :
          CurrentStream(e) =
              IF \E n \in 1..Len(visited) : visited[n] = e
              THEN ProcessedStream(OriginalStream(e))
              ELSE OriginalStream(e)

\* Until the call is settled it stands at an await, at a page of the document
\* or at a content stream of a page: a step of removeWatermarks is possible.
CanStep ==
    /\ pc \in {"read", "load", "cleanup", "page", "stream", "save"}
    /\ pc = "page" => pageIndex \in 1..Len(pages)
    /\ pc = "stream" => <<pageIndex, streamIndex>> \in StreamPlaces

\* C29: once the document is loaded, the streams are visited page by page in
\* document order and in the order of their page, each once and one at a
\* time, and the call reaches the save, also when streams fail to decode
\* (every step leaves its position and a next step is possible until the call
\* is settled).
C29_SequentialTermination ==
    /\ [](Loaded => VisitsInOrder)
    /\ [](~Settled => CanStep)
    /\ [][Position' # Position]_vars
    /\ (pc = "cleanup") ~> (pc = "save")

\* C29 witness: the call has reached the save of a document of two pages with
\* two streams each, of which one did not decode, and has visited the four.
C29_Witness ==
    /\ pc = "save"
    /\ warned # {}
    /\ visited = <<<<1, 1>>, <<1, 2>>, <<2, 1>>, <<2, 2>>>>

====
